---- MODULE Spec2Model ----
(***************************************************************************)
(* shared_channel: a multi-consumer adapter over std::sync::mpsc.          *)
(*                                                                         *)
(* SharedReceiver<T> is Arc<Mutex<Receiver<T>>>.  Consumer threads own one *)
(* clone each and call recv / try_recv on it; producer threads own Sender  *)
(* clones and call send.  Every call is split at the points where another  *)
(* thread can observe it: taking the lock, the receive on the underlying   *)
(* Receiver, and the return (which drops the MutexGuard).                  *)
(***************************************************************************)
EXTENDS Naturals, Sequences, FiniteSets

\* ---- bounds -------------------------------------------------------------
NumConsumers == 2
NumProducers == 2
MaxMsgs == 2

Consumers == 1..NumConsumers
Producers == 1..NumProducers

\* A message is identified by its Sender and its position in that Sender's
\* stream; NoMsg fills the msg field of a result that carries no message.
NoMsg == <<0, 0>>
Ok(m) == [kind |-> "Ok", msg |-> m]
Empty == [kind |-> "Empty", msg |-> NoMsg]
Disconnected == [kind |-> "Disconnected", msg |-> NoMsg]
None == [kind |-> "None", msg |-> NoMsg]

VARIABLES
    queue,      \* the underlying channel's buffered messages, head first
    txAlive,    \* producers that own a live Sender clone
    nSent,      \* nSent[p]: messages p has sent successfully
    sendRes,    \* sendRes[p]: kind of the result of p's last send
    hasRx,      \* hasRx[t]: consumer t owns a SharedReceiver clone
    strong,     \* Arc strong count of `inner`
    rxDropped,  \* the underlying Receiver has been dropped
    locked,     \* Mutex: some MutexGuard is live
    poisoned,   \* Mutex: poison flag
    pc,         \* pc[t]: where consumer t is inside recv / try_recv
    res,        \* res[t]: the result the current call is about to return
    got,        \* got[t]: the messages returned to t, in order
    it,         \* it[t]: t's Iter: "none", "open", or "done" (next gave None)
    taken       \* history: messages in the order they left the queue

vars == <<queue, txAlive, nSent, sendRes, hasRx, strong, rxDropped,
          locked, poisoned, pc, res, got, it, taken>>

txVars == <<txAlive, nSent, sendRes>>
rxVars == <<hasRx, strong, rxDropped>>
callVars == <<pc, res, got, it>>

\* ---- construction -------------------------------------------------------
\* shared_channel(): one channel, one Sender (producer 1), one
\* SharedReceiver (consumer 1) wrapping the Receiver in a fresh Arc<Mutex>.
Init ==
    /\ queue = <<>>
    /\ txAlive = {1}
    /\ nSent = [p \in Producers |-> 0]
    /\ sendRes = [p \in Producers |-> "None"]
    /\ hasRx = [t \in Consumers |-> t = 1]
    /\ strong = 1
    /\ rxDropped = FALSE
    /\ locked = FALSE
    /\ poisoned = FALSE
    /\ pc = [t \in Consumers |-> "idle"]
    /\ res = [t \in Consumers |-> None]
    /\ got = [t \in Consumers |-> <<>>]
    /\ it = [t \in Consumers |-> "none"]
    /\ taken = <<>>

\* ---- the sending side (std::sync::mpsc::Sender, passed through) ----------
CloneTx(p, q) ==
    /\ p \in txAlive
    /\ q \notin txAlive
    /\ txAlive' = txAlive \cup {q}
    /\ UNCHANGED <<queue, nSent, sendRes, rxVars, locked, poisoned, callVars, taken>>

DropTx(p) ==
    /\ p \in txAlive
    /\ txAlive' = txAlive \ {p}
    /\ UNCHANGED <<queue, nSent, sendRes, rxVars, locked, poisoned, callVars, taken>>

\* send fails, and enqueues nothing, once the Receiver is gone.
RECURSIVE SumSent(_)
SumSent(S) == IF S = {} THEN 0
              ELSE LET p == CHOOSE x \in S : TRUE IN nSent[p] + SumSent(S \ {p})

NumSent == SumSent(Producers)

Send(p) ==
    /\ p \in txAlive
    /\ IF rxDropped
         THEN /\ sendRes' = [sendRes EXCEPT ![p] = "Err"]
              /\ UNCHANGED <<queue, nSent>>
         ELSE /\ NumSent < MaxMsgs
              /\ nSent' = [nSent EXCEPT ![p] = @ + 1]
              /\ queue' = Append(queue, <<p, nSent[p] + 1>>)
              /\ sendRes' = [sendRes EXCEPT ![p] = "Ok"]
    /\ UNCHANGED <<txAlive, rxVars, locked, poisoned, callVars, taken>>

\* ---- Clone / Drop of SharedReceiver -------------------------------------
\* Clone: Arc::clone, a new handle on the same Mutex<Receiver>.
\* (faulty variant: the clone gets a channel of its own, starting empty)
CloneRx_fresh(t, u) ==
    /\ hasRx[t]
    /\ pc[t] = "idle"
    /\ ~hasRx[u]
    /\ hasRx' = [hasRx EXCEPT ![u] = TRUE]
    /\ strong' = strong + 1
    /\ queue' = <<>>
    /\ UNCHANGED <<txVars, rxDropped, locked, poisoned, callVars, taken>>

CloneRx(t, u) ==
    /\ hasRx[t]
    /\ pc[t] = "idle"
    /\ ~hasRx[u]
    /\ hasRx' = [hasRx EXCEPT ![u] = TRUE]
    /\ strong' = strong + 1
    /\ UNCHANGED <<queue, txVars, rxDropped, locked, poisoned, callVars, taken>>

\* The Receiver is dropped with the last Arc; its buffered messages go
\* with it.
\* (faulty variant: any drop releases the Receiver)
LastShare_any(n) == TRUE

LastShare(n) == n = 1

DropRx(t) ==
    /\ hasRx[t]
    /\ pc[t] = "idle"
    /\ it[t] = "none"
    /\ hasRx' = [hasRx EXCEPT ![t] = FALSE]
    /\ strong' = strong - 1
    /\ IF LastShare(strong)
         THEN rxDropped' = TRUE /\ queue' = <<>>
         ELSE UNCHANGED <<rxDropped, queue>>
    /\ UNCHANGED <<txVars, locked, poisoned, callVars, taken>>

\* ---- the underlying Receiver --------------------------------------------
\* Receiver::recv blocks until a message is buffered or every Sender is
\* gone; buffered messages are handed out before the disconnect is.
\* (faulty variant: recv is not woken by the last Sender going away)
InnerRecvReady_deaf == queue # <<>>

InnerRecvReady == queue # <<>> \/ txAlive = {}

\* (faulty variant: the disconnect is reported before the buffered messages)
InnerRecvResult_eager ==
    IF txAlive = {} THEN Disconnected ELSE Ok(Head(queue))

\* (faulty variant: the newest message is handed out)
InnerRecvResult_newest ==
    IF queue # <<>> THEN Ok(queue[Len(queue)]) ELSE Disconnected

InnerRecvResult == IF queue # <<>> THEN Ok(Head(queue)) ELSE Disconnected

\* (faulty variant: an empty queue is reported as a disconnect)
InnerTryRecvResult_hasty ==
    IF queue # <<>> THEN Ok(Head(queue)) ELSE Disconnected

\* (faulty variant: the disconnect is never reported)
InnerTryRecvResult_patient ==
    IF queue # <<>> THEN Ok(Head(queue)) ELSE Empty

\* (faulty variant: the buffer is never looked at)
InnerTryRecvResult_blind ==
    IF txAlive = {} THEN Disconnected ELSE Empty

InnerTryRecvResult ==
    IF queue # <<>> THEN Ok(Head(queue))
    ELSE IF txAlive = {} THEN Disconnected
    ELSE Empty

\* The queue after a receive with result r.
\* (faulty variant: a successful receive discards the rest of the buffer)
Dequeue_drain(r) == IF r.kind = "Ok" THEN <<>> ELSE queue

\* (faulty variant: the message stays queued)
Dequeue_keep(r) == queue

Dequeue(r) == IF r.kind = "Ok" THEN Tail(queue) ELSE queue

Record(r) == IF r.kind = "Ok" THEN Append(taken, r.msg) ELSE taken

\* ---- SharedReceiver::recv -----------------------------------------------
RecvCall(t) ==
    /\ hasRx[t]
    /\ pc[t] = "idle"
    /\ it[t] = "none"
    /\ pc' = [pc EXCEPT ![t] = "recv_lock"]
    /\ UNCHANGED <<queue, txVars, rxVars, locked, poisoned, res, got, it, taken>>

\* Mutex::lock waits for the lock, takes it, and only then looks at the
\* poison flag: Err(PoisonError) carries the guard, which lives until the
\* match ends.
\* (faulty variant: lock does not wait)
LockFree_always == TRUE

LockFree == ~locked

RecvPoisonedResult == Disconnected

RecvLock(t) ==
    /\ pc[t] = "recv_lock"
    /\ LockFree
    /\ locked' = TRUE
    /\ IF poisoned
         THEN /\ res' = [res EXCEPT ![t] = RecvPoisonedResult]
              /\ pc' = [pc EXCEPT ![t] = "recv_ret"]
         ELSE /\ pc' = [pc EXCEPT ![t] = "recv_inner"]
              /\ UNCHANGED res
    /\ UNCHANGED <<queue, txVars, rxVars, poisoned, got, it, taken>>

\* (faulty variant: the receive unwinds with the guard held)
RecvInner_unwinds(t) ==
    /\ pc[t] = "recv_inner"
    /\ poisoned' = TRUE
    /\ locked' = FALSE
    /\ pc' = [pc EXCEPT ![t] = "idle"]
    /\ UNCHANGED <<queue, txVars, rxVars, res, got, it, taken>>

RecvInner(t) ==
    /\ pc[t] = "recv_inner"
    /\ InnerRecvReady
    /\ res' = [res EXCEPT ![t] = InnerRecvResult]
    /\ queue' = Dequeue(InnerRecvResult)
    /\ taken' = Record(InnerRecvResult)
    /\ pc' = [pc EXCEPT ![t] = "recv_ret"]
    /\ UNCHANGED <<txVars, rxVars, locked, poisoned, got, it>>

\* ---- SharedReceiver::try_recv -------------------------------------------
\* The call opens with Mutex::try_lock: WouldBlock when the lock is taken
\* (poisoned or not), otherwise it takes the lock and then looks at the
\* poison flag.
\* (faulty variant: try_lock waits for the lock)
TryLockReady_waits == ~locked

TryLockReady == TRUE

\* (faulty variant: a busy lock is reported as a disconnect)
WouldBlockResult_disc == Disconnected

WouldBlockResult == Empty

\* (faulty variant: the Poisoned arm falls through to Empty)
TryPoisonedResult_empty == Empty

TryPoisonedResult == Disconnected

TryLock(t) ==
    /\ hasRx[t]
    /\ pc[t] = "idle"
    /\ it[t] = "none"
    /\ TryLockReady
    /\ IF locked
         THEN /\ res' = [res EXCEPT ![t] = WouldBlockResult]
              /\ pc' = [pc EXCEPT ![t] = "try_fail"]
              /\ UNCHANGED locked
         ELSE /\ locked' = TRUE
              /\ IF poisoned
                   THEN /\ res' = [res EXCEPT ![t] = TryPoisonedResult]
                        /\ pc' = [pc EXCEPT ![t] = "try_ret"]
                   ELSE /\ pc' = [pc EXCEPT ![t] = "try_inner"]
                        /\ UNCHANGED res
    /\ UNCHANGED <<queue, txVars, rxVars, poisoned, got, it, taken>>

TryInner(t) ==
    /\ pc[t] = "try_inner"
    /\ res' = [res EXCEPT ![t] = InnerTryRecvResult]
    /\ queue' = Dequeue(InnerTryRecvResult)
    /\ taken' = Record(InnerTryRecvResult)
    /\ pc' = [pc EXCEPT ![t] = "try_ret"]
    /\ UNCHANGED <<txVars, rxVars, locked, poisoned, got, it>>

\* ---- return: the guard (if one was taken) is dropped, the result handed
\* to the caller ------------------------------------------------------------
\* (faulty variant: the guard is released only on success)
HoldsGuard_okOnly(t) ==
    pc[t] \in {"recv_inner", "recv_ret", "try_inner", "try_ret"} /\ res[t].kind = "Ok"

\* (faulty variant: the guard is never released)
HoldsGuard_leaked(t) == FALSE

HoldsGuard(t) == pc[t] \in {"recv_inner", "recv_ret", "try_inner", "try_ret"}

\* Iter::next is self.rx.recv().ok(): None exactly on Err.
\* (faulty variant: the sequence never ends)
IterEnds_never(r) == FALSE

IterEnds(r) == r.kind # "Ok"

\* While t's Iter is open its calls are calls of next.
Return(t) ==
    /\ pc[t] \in {"recv_ret", "try_ret", "try_fail"}
    /\ locked' = IF HoldsGuard(t) THEN FALSE ELSE locked
    /\ got' = [got EXCEPT ![t] = IF res[t].kind = "Ok" THEN Append(@, res[t].msg) ELSE @]
    /\ it' = [it EXCEPT ![t] = IF @ = "open" /\ IterEnds(res[t]) THEN "done" ELSE @]
    /\ res' = [res EXCEPT ![t] = None]
    /\ pc' = [pc EXCEPT ![t] = "idle"]
    /\ UNCHANGED <<queue, txVars, rxVars, poisoned, taken>>

\* ---- fault: the holder of the guard unwinds inside the underlying
\* receive.  Dropping a MutexGuard while panicking sets the poison flag and
\* unlocks; the unwound call hands back no result.  The clone outlives the
\* unwinding (caught with catch_unwind, or the clone is borrowed by the
\* thread that calls next), so it may be used or dropped afterwards. ---------
Panic(t) ==
    /\ pc[t] \in {"recv_inner", "try_inner"}
    /\ poisoned' = TRUE
    /\ locked' = FALSE
    /\ pc' = [pc EXCEPT ![t] = "idle"]
    /\ UNCHANGED <<queue, txVars, rxVars, res, got, it, taken>>

\* ---- SharedReceiver::iter / IntoIterator for &SharedReceiver ------------
\* Iter { rx: self } borrows the clone; a new one may be made after an
\* earlier one is exhausted.  The loop body makes no call of its own.
IterOpen(t) ==
    /\ hasRx[t]
    /\ pc[t] = "idle"
    /\ it[t] \in {"none", "done"}
    /\ it' = [it EXCEPT ![t] = "open"]
    /\ UNCHANGED <<queue, txVars, rxVars, locked, poisoned, pc, res, got, taken>>

\* (faulty variant: next polls with try_recv)
IterNext_polling(t) ==
    /\ hasRx[t]
    /\ pc[t] = "idle"
    /\ it[t] = "open"
    /\ IF locked
         THEN /\ res' = [res EXCEPT ![t] = Empty]
              /\ pc' = [pc EXCEPT ![t] = "try_fail"]
              /\ UNCHANGED locked
         ELSE /\ locked' = TRUE
              /\ pc' = [pc EXCEPT ![t] = "try_inner"]
              /\ UNCHANGED res
    /\ UNCHANGED <<queue, txVars, rxVars, poisoned, got, it, taken>>

\* Iter::next enters SharedReceiver::recv.
IterNext(t) ==
    /\ hasRx[t]
    /\ pc[t] = "idle"
    /\ it[t] = "open"
    /\ pc' = [pc EXCEPT ![t] = "recv_lock"]
    /\ UNCHANGED <<queue, txVars, rxVars, locked, poisoned, res, got, it, taken>>

\* The exhausted Iter goes out of scope.
IterClose(t) ==
    /\ it[t] = "done"
    /\ it' = [it EXCEPT ![t] = "none"]
    /\ UNCHANGED <<queue, txVars, rxVars, locked, poisoned, pc, res, got, taken>>

\* ---- specifications -----------------------------------------------------
Next ==
    \/ \E p \in Producers, q \in Producers : CloneTx(p, q)
    \/ \E p \in Producers : DropTx(p)
    \/ \E p \in Producers : Send(p)
    \/ \E t \in Consumers, u \in Consumers : CloneRx(t, u)
    \/ \E t \in Consumers : DropRx(t)
    \/ \E t \in Consumers : RecvCall(t)
    \/ \E t \in Consumers : RecvLock(t)
    \/ \E t \in Consumers : RecvInner(t)
    \/ \E t \in Consumers : TryLock(t)
    \/ \E t \in Consumers : TryInner(t)
    \/ \E t \in Consumers : Return(t)

Spec == Init /\ [][Next]_vars

NextFault == Next \/ \E t \in Consumers : Panic(t)

SpecFault == Init /\ [][NextFault]_vars

\* A thread inside a call keeps running: it is scheduled again (weak
\* fairness of its steps), and a thread waiting in Mutex::lock gets the lock
\* if the lock keeps being released (strong fairness of the acquisition).
Fairness ==
    \A t \in Consumers :
        /\ SF_vars(RecvLock(t))
        /\ WF_vars(RecvInner(t))
        /\ WF_vars(TryInner(t))
        /\ WF_vars(Return(t))

FairSpec == Spec /\ Fairness

\* The public API with iteration.
NextIter ==
    \/ Next
    \/ \E t \in Consumers : IterOpen(t)
    \/ \E t \in Consumers : IterNext(t)
    \/ \E t \in Consumers : IterClose(t)

SpecIter == Init /\ [][NextIter]_vars

\* A for loop over an open Iter keeps calling next.
FairSpecIter ==
    SpecIter /\ Fairness /\ \A t \in Consumers : WF_vars(IterNext(t))

\* A polling loop keeps calling try_recv.
FairSpecPoll ==
    Spec /\ Fairness /\ \A t \in Consumers : WF_vars(TryLock(t))

\* ---- vocabulary of the properties ---------------------------------------
RECURSIVE SumLen(_)
SumLen(S) == IF S = {} THEN 0
             ELSE LET t == CHOOSE x \in S : TRUE IN Len(got[t]) + SumLen(S \ {t})

SeqSet(s) == {s[i] : i \in DOMAIN s}

SentSet == UNION {{<<p, n>> : n \in 1..nSent[p]} : p \in Producers}

\* Consumers whose current call has taken a message it has yet to return.
InFlight == {t \in Consumers : res[t].kind = "Ok"}

\* Messages a receive call has taken: returned, or about to be.
ReceivedSet == UNION {SeqSet(got[t]) : t \in Consumers} \cup {res[t].msg : t \in InFlight}

NumReceived == SumLen(Consumers) + Cardinality(InFlight)

NoRxAlive == \A t \in Consumers : ~hasRx[t]

InInner(t) == pc[t] \in {"recv_inner", "try_inner"}

FromSender(s, p) == SelectSeq(s, LAMBDA m : m[1] = p)

\* C1: exactly-once delivery.  No message is handed to two receive calls,
\* and while a SharedReceiver clone is alive every sent message is either
\* still queued or has been taken by exactly one receive call, so that
\* sent = received + queued.
C1_ExactlyOnce ==
    /\ NumReceived = Cardinality(ReceivedSet)
    /\ ReceivedSet \cap SeqSet(queue) = {}
    /\ ~NoRxAlive =>
         /\ ReceivedSet \cup SeqSet(queue) = SentSet
         /\ NumReceived + Len(queue) = Cardinality(SentSet)

C1_Witness ==
    \E t, u \in Consumers :
        /\ t # u
        /\ got[t] # <<>> /\ got[u] # <<>>
        /\ SentSet = ReceivedSet

\* C2: mutual exclusion.  At most one thread holds the MutexGuard, hence at
\* most one is inside the underlying Receiver's recv / try_recv.
C2_MutualExclusion ==
    /\ Cardinality({t \in Consumers : InInner(t)}) <= 1
    /\ Cardinality({t \in Consumers : HoldsGuard(t)}) <= 1

C2_Witness ==
    \E t, u \in Consumers :
        /\ pc[t] = "recv_inner"
        /\ pc[u] = "recv_lock"
        /\ queue # <<>>

\* C3: per-sender FIFO.  The messages of one Sender leave the queue in the
\* order sent (1, 2, ... without gaps), every consumer sees the messages of
\* one Sender in increasing order, and a consumer that did all the
\* receiving got exactly the removal order.
C3_PerSenderFifo ==
    /\ \A p \in Producers :
         LET s == FromSender(taken, p) IN \A i \in DOMAIN s : s[i] = <<p, i>>
    /\ \A t \in Consumers, p \in Producers :
         LET s == FromSender(got[t], p) IN
           \A i, j \in DOMAIN s : i < j => s[i][2] < s[j][2]
    /\ \A t \in Consumers :
         (InFlight = {} /\ \A u \in Consumers \ {t} : got[u] = <<>>) => got[t] = taken

C3_Witness ==
    \E t \in Consumers, p \in Producers :
        /\ got[t] = << <<p, 1>>, <<p, 2>> >>
        /\ \A u \in Consumers \ {t} : got[u] = <<>>

\* C4: once every Sender is dropped, a recv in progress (waiting for the
\* lock, waiting on the queue, or about to return) returns, and one that has
\* not yet taken a message when the queue is empty returns Disconnected.
InRecv(t) == pc[t] \in {"recv_lock", "recv_inner", "recv_ret"}

C4_RecvReturnsAfterSendersGone ==
    \A t \in Consumers :
        /\ (txAlive = {} /\ InRecv(t)) ~> (pc[t] = "idle")
        /\ (txAlive = {} /\ queue = <<>> /\ pc[t] \in {"recv_lock", "recv_inner"})
             ~> (pc[t] = "recv_ret" /\ res[t] = Disconnected)

C4_Witness ==
    \E t, u \in Consumers :
        /\ txAlive = {}
        /\ queue = <<>>
        /\ pc[t] = "recv_inner"
        /\ pc[u] = "recv_lock"

\* A call of t decides its result in this step.
Decides(t) == res[t].kind = "None" /\ res'[t].kind # "None"

\* C5: a receive decides on Disconnected only when, as it looks, every
\* Sender is dropped and the queue is empty, or the lock is poisoned; and
\* without poisoning, a receive that reports Disconnected finds every sent
\* message already taken by some receive.
C5_DisconnectedOnlyWhenDrained ==
    /\ [][\A t \in Consumers :
            (Decides(t) /\ res'[t] = Disconnected)
                => (poisoned \/ (txAlive = {} /\ queue = <<>>))]_vars
    /\ [](\A t \in Consumers :
            (res[t] = Disconnected /\ ~poisoned)
                => (txAlive = {} /\ queue = <<>> /\ SeqSet(taken) = SentSet))

C5_Witness ==
    \E t \in Consumers :
        /\ res[t] = Disconnected
        /\ ~poisoned
        /\ Len(taken) = MaxMsgs

\* p's send returns in this step.
Sends(p) == sendRes'[p] # sendRes[p] \/ nSent'[p] # nSent[p]

\* C6: the channel is receiver-disconnected exactly when no SharedReceiver
\* clone is left; a send fails exactly then, and a failed send enqueues
\* nothing while a successful one enqueues its message.
C6_SendFailsIffNoReceiver ==
    /\ [](/\ strong = Cardinality({t \in Consumers : hasRx[t]})
          /\ rxDropped <=> NoRxAlive)
    /\ [][\A p \in Producers :
            Sends(p) =>
              /\ (sendRes'[p] = "Err") <=> NoRxAlive
              /\ (sendRes'[p] = "Ok") <=> ~NoRxAlive
              /\ sendRes'[p] = "Err" => queue' = queue
              /\ sendRes'[p] = "Ok" => queue' = Append(queue, <<p, nSent'[p]>>)]_vars
    /\ [][NoRxAlive => (queue' = queue /\ nSent' = nSent)]_vars

C6_Witness ==
    \E p, q \in Producers :
        /\ sendRes[p] = "Err"
        /\ sendRes[q] = "Ok"

\* C7: with an empty queue, a live Sender and no poisoning, a try_recv that
\* decides its result decides on Empty, with the lock free or taken.
C7_TryRecvEmptyWhenConnected ==
    [][\A t \in Consumers :
         (/\ Decides(t)
          /\ pc[t] \in {"idle", "try_inner"}
          /\ queue = <<>> /\ txAlive # {} /\ ~poisoned)
            => res'[t] = Empty]_vars

C7_Witness ==
    \E t, u \in Consumers :
        /\ pc[t] = "try_ret" /\ res[t] = Empty
        /\ pc[u] = "try_fail" /\ res[u] = Empty
        /\ queue = <<>> /\ txAlive # {}

\* C8: try_recv never waits.  A thread may always open a try_recv, and
\* inside one its next step can be taken whatever the other threads do,
\* also while another thread sits in recv on an empty queue with the lock.
TryStep(t) == TryLock(t) \/ TryInner(t) \/ Return(t)

InTryRecv(t) == pc[t] \in {"try_inner", "try_ret", "try_fail"}

C8_TryRecvNeverBlocks ==
    \A t \in Consumers :
        /\ (hasRx[t] /\ pc[t] = "idle") => ENABLED TryLock(t)
        /\ InTryRecv(t) => ENABLED TryStep(t)

C8_Witness ==
    \E t, u \in Consumers :
        /\ pc[u] = "recv_inner" /\ queue = <<>> /\ txAlive # {}
        /\ pc[t] = "try_fail"

\* C9 as stated: whenever try_recv decides on Empty, the queue is empty and
\* a Sender is alive.
C9_Original ==
    [][\A t \in Consumers :
         (Decides(t) /\ res'[t] = Empty) => (queue = <<>> /\ txAlive # {})]_vars

\* C9 amended: whenever try_recv decides on Empty, either it found the lock
\* taken by another thread (and looked at nothing else), or it had the lock
\* and found the queue empty with a Sender alive.
C9_EmptyMeansBusyOrEmpty ==
    [][\A t \in Consumers :
         (Decides(t) /\ res'[t] = Empty) =>
            \/ pc[t] = "idle" /\ locked /\ \E u \in Consumers \ {t} : HoldsGuard(u)
            \/ pc[t] = "try_inner" /\ queue = <<>> /\ txAlive # {}]_vars

C9_Witness ==
    \E t \in Consumers :
        /\ pc[t] = "try_fail" /\ res[t] = Empty
        /\ queue # <<>>

\* C10 as stated: with the lock poisoned every recv and every try_recv
\* decides on Disconnected.
C10_Original ==
    [][\A t \in Consumers : (poisoned /\ Decides(t)) => res'[t] = Disconnected]_vars

\* C10 amended: with the lock poisoned no thread enters the underlying
\* receive (so none waits on the queue, takes a message or unwinds), every
\* recv decides on Disconnected, and every try_recv decides on Disconnected
\* unless it finds the lock held by another thread's call at that instant,
\* when it decides on Empty.
C10_PoisonedIsDisconnected ==
    /\ [](poisoned => \A t \in Consumers : ~InInner(t))
    /\ [][\A t \in Consumers :
            (poisoned /\ Decides(t)) =>
               /\ queue' = queue
               /\ pc[t] = "recv_lock" => res'[t] = Disconnected
               /\ pc[t] = "idle" =>
                    res'[t] = (IF locked THEN Empty ELSE Disconnected)]_vars

C10_Witness ==
    \E t, u \in Consumers :
        /\ poisoned
        /\ pc[t] = "recv_ret" /\ res[t] = Disconnected
        /\ pc[u] = "try_fail" /\ res[u] = Empty

\* ---- iteration -----------------------------------------------------------
InNext(t) == it[t] = "open" /\ pc[t] # "idle"

\* No Sender is left, nothing is buffered and no call holds a message.
Drained == txAlive = {} /\ queue = <<>> /\ InFlight = {}

\* C11: a call of next is one blocking recv: it waits for the lock, makes
\* one receive on the underlying Receiver and returns.  It yields that
\* receive's message, and it ends the sequence exactly when that receive
\* reported Disconnected, which it does only with no Sender left and
\* nothing buffered.
C11_NextIsOneRecv ==
    /\ [](\A t \in Consumers : InNext(t) => InRecv(t))
    /\ [][\A t \in Consumers :
            (InNext(t) /\ pc'[t] # pc[t]) =>
               /\ pc[t] = "recv_lock" => (pc'[t] = "recv_inner" /\ got' = got)
               /\ pc[t] = "recv_inner" =>
                    /\ pc'[t] = "recv_ret"
                    /\ got' = got
                    /\ res'[t] = (IF queue # <<>> THEN Ok(Head(queue)) ELSE Disconnected)
                    /\ res'[t] = Disconnected => txAlive = {}
               /\ pc[t] = "recv_ret" =>
                    /\ pc'[t] = "idle"
                    /\ res[t].kind = "Ok" =>
                         (it'[t] = "open" /\ got'[t] = Append(got[t], res[t].msg))
                    /\ res[t] = Disconnected => (it'[t] = "done" /\ got'[t] = got[t])
                    /\ res[t].kind \in {"Ok", "Disconnected"}]_vars
    /\ [][\A t \in Consumers :
            (it[t] = "open" /\ it'[t] # "open") =>
               (pc[t] = "recv_ret" /\ res[t] = Disconnected /\ txAlive = {} /\ queue = <<>>)]_vars

C11_Witness ==
    \E t \in Consumers :
        /\ it[t] = "done"
        /\ Len(got[t]) = MaxMsgs

\* C12: Disconnected is terminal.  When a blocking recv reports it, or an
\* Iter has ended, the channel is drained; a drained channel stays drained,
\* every recv on it decides on Disconnected, no receive decides on a
\* message, and an Iter made afresh ends at its first next, yielding nothing.
C12_DisconnectedIsTerminal ==
    /\ [](\A t \in Consumers :
            ((pc[t] = "recv_ret" /\ res[t] = Disconnected) \/ it[t] = "done") => Drained)
    /\ [][Drained =>
            /\ Drained'
            /\ got' = got
            /\ \A t \in Consumers :
                 /\ Decides(t) => res'[t].kind # "Ok"
                 /\ (Decides(t) /\ pc[t] = "recv_inner") => res'[t] = Disconnected
                 /\ (it[t] = "open" /\ pc[t] = "recv_ret") => it'[t] \in {"open", "done"}
                 /\ (it[t] = "open" /\ pc[t] = "recv_ret" /\ pc'[t] = "idle") => it'[t] = "done"]_vars

C12_Witness ==
    \E t \in Consumers :
        /\ it[t] = "open"
        /\ pc[t] = "recv_ret" /\ res[t] = Disconnected
        /\ got[t] # <<>>
        /\ \E u \in Consumers \ {t} : it[u] = "done"

\* C13: drain to completion.  Once every Sender is dropped, a consumer
\* looping over an Iter reaches the end of the sequence, and by then the
\* consumers together have been handed exactly the messages sent.
C13_DrainToCompletion ==
    \A t \in Consumers :
        (txAlive = {} /\ it[t] = "open")
            ~> (it[t] = "done" /\ SumLen(Consumers) = NumSent
                               /\ UNION {SeqSet(got[u]) : u \in Consumers} = SentSet)

C13_Witness ==
    \E t, u \in Consumers :
        /\ t # u
        /\ it[t] = "done" /\ it[u] = "done"
        /\ got[t] # <<>> /\ got[u] # <<>>
        /\ NumSent = MaxMsgs

\* C14: polling.  While t is the only consumer, a message in the queue ends
\* up among the messages handed to t, which keeps calling try_recv and
\* ignores Empty; by C3 they arrive in the order sent.
OnlyConsumer(t) == hasRx[t] /\ strong = 1

AllMsgs == Producers \X (1..MaxMsgs)

C14_PollingReceivesAll ==
    \A t \in Consumers, m \in AllMsgs :
        (OnlyConsumer(t) /\ m \in SeqSet(queue))
            ~> (m \in SeqSet(got[t]) \/ ~OnlyConsumer(t))

C14_Witness ==
    \E t \in Consumers :
        /\ OnlyConsumer(t)
        /\ pc[t] = "try_ret" /\ res[t].kind = "Ok"
        /\ got[t] # <<>>
        /\ txAlive # {}

\* C15: a clone is a handle on the same queue.  Making one leaves the queue
\* and the Receiver as they are; a receive through any clone takes the head
\* of the one queue; each message taken went through exactly one clone, and
\* each clone's messages are in the order they were taken.
TakenBy(t) == SeqSet(got[t]) \cup (IF t \in InFlight THEN {res[t].msg} ELSE {})

IsSubSeq(s, w) ==
    \A i, j \in DOMAIN s : i < j =>
        \E a, b \in DOMAIN w : a < b /\ w[a] = s[i] /\ w[b] = s[j]

C15_ClonesShareOneQueue ==
    /\ [](/\ \A i \in DOMAIN taken :
               Cardinality({t \in Consumers : taken[i] \in TakenBy(t)}) = 1
          /\ \A t \in Consumers : TakenBy(t) \subseteq SeqSet(taken)
          /\ \A t \in Consumers : IsSubSeq(got[t], taken))
    /\ [][\A u \in Consumers :
            (~hasRx[u] /\ hasRx'[u]) =>
               (queue' = queue /\ taken' = taken /\ strong' = strong + 1
                /\ ~rxDropped' /\ got' = got)]_vars
    /\ [][\A t \in Consumers :
            (Decides(t) /\ res'[t].kind = "Ok") =>
               (queue # <<>> /\ res'[t].msg = Head(queue) /\ queue' = Tail(queue))]_vars

C15_Witness ==
    /\ \A p \in Producers : sendRes[p] = (IF p = 1 THEN "Ok" ELSE "None")
    /\ got[1] = << <<1, 1>> >>
    /\ got[2] = << <<1, 2>> >>

\* ---- the lock ------------------------------------------------------------
GuardPcs == {"recv_inner", "recv_ret", "try_inner", "try_ret"}

\* C16: the lock is held only inside one receive call.  It is taken exactly
\* while some thread is between its lock / try_lock and its return, so it is
\* free whenever no thread is inside a call; a thread takes it only when it
\* is free (never while holding it), and gives it up at its return whatever
\* the result.
C16_LockHeldOnlyInsideCall ==
    /\ [](/\ locked <=> \E t \in Consumers : pc[t] \in GuardPcs
          /\ (\A t \in Consumers : pc[t] = "idle") => ~locked)
    /\ [][\A t \in Consumers :
            /\ (pc[t] \notin GuardPcs /\ pc'[t] \in GuardPcs) => (~locked /\ locked')
            /\ (pc[t] \in GuardPcs /\ pc'[t] = "idle") => ~locked'
            /\ (pc[t] \in GuardPcs /\ pc'[t] # pc[t]) => pc'[t] \in GuardPcs \cup {"idle"}
            /\ (pc[t] = "try_fail" /\ pc'[t] = "idle") => locked' = locked]_vars

C16_Witness ==
    /\ \A t \in Consumers : pc[t] = "idle"
    /\ ~locked
    /\ txAlive = {}
    /\ queue # <<>>
    /\ \E t \in Consumers : got[t] # <<>>

\* send needs no lock: a live Sender can send whatever the consumers do.
SendCompletes ==
    \A p \in Producers :
        (p \in txAlive /\ (rxDropped \/ NumSent < MaxMsgs)) => ENABLED Send(p)

InBlockingRecv(t) == pc[t] \in {"recv_lock", "recv_inner"}

\* C17 as stated: send always completes, and any message in the queue is
\* eventually received when some consumer is inside a blocking recv.
C17_Original ==
    /\ []SendCompletes
    /\ \A m \in AllMsgs :
         (m \in SeqSet(queue) /\ \E t \in Consumers : InBlockingRecv(t))
             ~> (m \in SeqSet(taken))

\* C17 amended: send always completes, and the message at the head of the
\* queue is eventually received when some consumer is inside a blocking
\* recv (one call takes one message; those behind the head wait for
\* further calls).
C17_NoLostWakeup ==
    /\ []SendCompletes
    /\ \A m \in AllMsgs :
         (queue # <<>> /\ Head(queue) = m /\ \E t \in Consumers : InBlockingRecv(t))
             ~> (m \in SeqSet(taken))

C17_Witness ==
    \E t \in Consumers :
        /\ pc[t] = "recv_inner"
        /\ strong = 1
        /\ Len(queue) = MaxMsgs
        /\ \A p \in Producers : sendRes[p] = "Ok"

\* C18: frame of a receive.  A step of a receive call touches neither the
\* Senders nor the clones nor another consumer's results; the step that
\* decides on a message removes exactly the head of the queue, and every
\* other step of the call (a lost lock race, Empty, Disconnected, a
\* poisoned lock) leaves the queue as it is.
C18_ReceiveFrame ==
    [][\A t \in Consumers :
         (pc'[t] # pc[t]) =>
            /\ txAlive' = txAlive /\ nSent' = nSent /\ sendRes' = sendRes
            /\ hasRx' = hasRx /\ strong' = strong /\ rxDropped' = rxDropped
            /\ \A u \in Consumers \ {t} : got'[u] = got[u] /\ res'[u] = res[u]
            /\ IF Decides(t) /\ res'[t].kind = "Ok"
                 THEN queue = <<res'[t].msg>> \o queue'
                 ELSE queue' = queue]_vars

C18_Witness ==
    \E t \in Consumers :
        /\ poisoned
        /\ pc[t] = "try_ret" /\ res[t] = Disconnected
        /\ Len(queue) = MaxMsgs

\* C19: collapsed Empty.  A try_recv that finds the lock held by another
\* thread, the lock not being poisoned, decides on Empty without touching
\* the queue, whatever the queue holds and whether or not a Sender is left.
C19_BusyLockIsEmpty ==
    [][\A t \in Consumers :
         (/\ pc[t] = "idle"
          /\ pc'[t] \in {"try_inner", "try_ret", "try_fail"}
          /\ locked /\ ~poisoned)
            => (pc'[t] = "try_fail" /\ res'[t] = Empty /\ queue' = queue /\ locked')]_vars

C19_Witness ==
    \E t \in Consumers :
        /\ pc[t] = "try_fail" /\ res[t] = Empty
        /\ ~poisoned
        /\ queue # <<>>
        /\ txAlive = {}

\* C20: no operation of the public API poisons the lock, so neither
\* poisoned-lock arm is ever taken: lock always leads into the underlying
\* recv, try_lock into the underlying try_recv or the WouldBlock arm.
C20_NeverPoisoned ==
    /\ [](~poisoned)
    /\ [][\A t \in Consumers :
            /\ (pc[t] = "recv_lock" /\ pc'[t] # pc[t]) => pc'[t] = "recv_inner"
            /\ (pc[t] = "idle" /\ pc'[t] \notin {"idle", "recv_lock"})
                  => pc'[t] \in {"try_inner", "try_fail"}]_vars

C20_Witness ==
    \E t, u \in Consumers :
        /\ ~poisoned
        /\ it[t] = "open" /\ pc[t] = "recv_ret" /\ res[t].kind = "Ok"
        /\ pc[u] = "try_fail"
        /\ sendRes[1] = "Ok"

====
